---- MODULE Spec2Model ----
(***************************************************************************)
(* PostgreSQL -> ClickHouse change propagation: the streaming daemon       *)
(* (sync_daemon.py), the bulk loader (src/etl/sync.py with                 *)
(* src/db/clickhouse.py and src/db/postgres.py), the source table with its *)
(* NOTIFY trigger, and the ReplacingMergeTree target table.                *)
(***************************************************************************)
EXTENDS Integers, Sequences, FiniteSets, TLC

\* ------------------------------------------------------------------ bounds
MaxNotifies == 2      \* notifications queued on the listen connection
MaxVersions == 2      \* stored (uncompacted) versions of one key in the target
MaxFailures == 2      \* consecutive failed sessions explored beside the data path

\* ------------------------------------------------------- program constants
max_retries == 30

\* ------------------------------------------------------------------ values
\* Column values are written as strings: "NULL" is SQL NULL / None, numbers
\* are their decimal digits, "" is the empty string, "ts2" is a naive
\* timestamp and "ts1+07" a timezone-aware one.
NULL == "NULL"
Numbers == {"0", "5", "2024", "2025"}
TzAware == {"ts1+07"}

Keys == {"k1", "k2"}

\* The modelled columns of SYNC_COLUMNS, one or two per conversion rule; a
\* row is the tuple of its values in this order.
SYNC_COLUMNS ==
  <<"id_root", "type_investasi", "tahun_rkap", "pic", "status_issue",
    "rkap", "tanggal_kontrak", "updated_at">>

DECIMAL_COLUMNS == {"rkap"}

\* The readings of datetime.now() a bulk run can save, in ISO format.
Clock == {"ts1", "ts2"}

\* The instant a timestamp value denotes, as the source's comparison
\* updated_at > since orders them.
Instant(value) ==
  IF value \in {"ts1", "ts1+07"} THEN 1 ELSE IF value = "ts2" THEN 2 ELSE 0

\* fetchone() returning None: no row for the key.
NoRow == <<>>

\* Two row contents a project can have: one with every optional field empty,
\* one fully filled in.
SourceRow(k, filled) ==
  IF filled
  THEN <<k, "Multi Year", "2024", "ana", "Closed", "5", "2024-01-01", "ts2">>
  ELSE <<k, "", NULL, NULL, NULL, NULL, NULL, "ts1+07">>

\* A row written past the administrative surface's validation: enum columns
\* with values outside their sets, an empty text and a zero amount.
OddRow(k) == <<k, "Hibah", "2025", "", "Pending", "0", NULL, "ts2">>

\* The contents the administrative surface gives key k: k1 is inserted with
\* either content and updated from one to the other, k2 is only ever inserted
\* (filled in) and deleted.
SourceRows(k) ==
  IF k = "k1" THEN {SourceRow(k, f) : f \in BOOLEAN} ELSE {SourceRow(k, TRUE)}

\* sync_daemon.convert_value
convert_value(value, column_name) ==
  IF column_name = "type_investasi"
  THEN (IF value = NULL \/ value = "" THEN "Murni" ELSE value)
  ELSE IF column_name = "status_issue"
  THEN (IF value = NULL \/ value = "" THEN "Open" ELSE value)
  ELSE IF column_name \in DECIMAL_COLUMNS
  THEN (IF value = NULL THEN "0"
        ELSE IF value \in Numbers THEN value ELSE "0")
  ELSE IF value = NULL
  THEN (IF column_name \in {"tanggal_kontrak", "tgl_mulai_kontrak",
                            "tanggal_selesai", "latitude", "longitude"}
        THEN NULL
        ELSE IF column_name \in {"tahun_usulan", "tahun_rkap", "jangka_waktu"}
        THEN "0"
        ELSE IF column_name \in {"created_at", "updated_at"} THEN NULL
        ELSE "")
  ELSE value

\* tuple(convert_value(row[i], SYNC_COLUMNS[i]) for i in range(len(row)))
convert_row(row) == [i \in 1..Len(row) |-> convert_value(row[i], SYNC_COLUMNS[i])]

\* Python truthiness of a value: None, 0 and '' are falsy.
Truthy(value) == value \notin {NULL, "0", ""}

\* value.replace(tzinfo=None)
StripTz(value) == IF value = "ts1+07" THEN "ts1" ELSE value

\* The per-column conversion of ClickHouseDB.insert_projects
insert_projects_value(value, col) ==
  IF col = "type_investasi"
  THEN (IF value \in {"Murni", "Multi Year", "Carry Forward"} THEN value ELSE "Murni")
  ELSE IF col = "status_issue"
  THEN (IF value \in {"Open", "Closed"} THEN value ELSE "Open")
  ELSE IF col \in {"tahun_usulan", "tahun_rkap"}
  THEN (IF Truthy(value) THEN value ELSE "2025")
  ELSE IF col = "jangka_waktu"
  THEN (IF Truthy(value) THEN value ELSE "0")
  ELSE IF col \in DECIMAL_COLUMNS
  THEN (IF Truthy(value) THEN value ELSE "0")
  ELSE IF col \in {"latitude", "longitude"}
  THEN (IF Truthy(value) THEN value ELSE NULL)
  ELSE IF col \in {"tanggal_kontrak", "tgl_mulai_kontrak", "tanggal_selesai"}
  THEN value
  ELSE IF col \in {"created_at", "updated_at"}
  THEN (IF value \in TzAware THEN StripTz(value) ELSE value)
  ELSE (IF Truthy(value) THEN value ELSE "")

\* One tuple of insert_projects' data, from the project dict
insert_projects_row(project) ==
  [i \in 1..Len(project) |-> insert_projects_value(project[i], SYNC_COLUMNS[i])]

\* ------------------------------------------------------------------- state
VARIABLES
  pg,           \* source table project_investasi: key -> row, or NoRow
  ch,           \* target table: key -> stored versions, oldest first
  notifies,     \* pg_listen_conn.notifies and its socket, in arrival order
  listening,    \* the LISTEN subscription of pg_listen_conn is active
  pc,           \* position of main()
  retry_count,  \* main's retry_count
  shutdown,     \* shutdown_event
  exit_status,  \* the process's exit status, -1 while it runs
  fs_rows,      \* full_sync's fetched rows between TRUNCATE and INSERT
  pending,      \* process_notifications' pending_ids, in dict order
  synced,       \* process_notifications' synced
  op_pc,        \* position of the operator's etl full_sync
  op_rows,      \* its fetched projects
  wait_time,    \* main's wait_time: the last sleep of the except block
  conns,        \* the connections main has created and not closed
  report,       \* what the operator's last verify_sync read and reported
  last_sync,    \* the content of LAST_SYNC_FILE, NULL while the file is absent
  cli_status,   \* exit status of the operator's last verify command, -1 before
  \* history variables
  session,      \* sessions started so far, counted up to 2
  fs_done,      \* full_sync returned normally in the current session
  drained,      \* the notifications the current flush drained
  acts,         \* the actions the current flush has applied so far
  nfresh,       \* how many of the newest queued notifications arrived in the
                \* current debounce window
  recent,       \* keys with an action applied for an event of the current window
  ups           \* per key: successive successful upserts of an unchanged row

vars ==
  <<pg, ch, notifies, listening, pc, retry_count, shutdown, exit_status,
    fs_rows, pending, synced, op_pc, op_rows, wait_time, conns, report,
    last_sync, cli_status, session, fs_done, drained, acts, nfresh, recent, ups>>

NoRows == [k \in Keys |-> NoRow]
EmptyTable == [k \in Keys |-> <<>>]

\* ---------------------------------------------------- the target's engine
Stored(row) == [row |-> row, doomed |-> FALSE]

\* client.execute("INSERT INTO project_investasi (...) VALUES", rows): the
\* rows of `rows` (key -> row or NoRow) are appended as new versions.
InsertRows(t, rows) ==
  [k \in Keys |-> IF rows[k] = NoRow THEN t[k] ELSE Append(t[k], Stored(rows[k]))]

\* ALTER TABLE ... DELETE WHERE id_root = k: a mutation over the versions
\* stored when it is issued; the engine removes them asynchronously.
Doom(versions) == [i \in 1..Len(versions) |-> [versions[i] EXCEPT !.doomed = TRUE]]

Live(versions) == SelectSeq(versions, LAMBDA v : ~v.doomed)
Doomed(versions) == SelectSeq(versions, LAMBDA v : v.doomed)

\* OPTIMIZE TABLE ... FINAL on the ReplacingMergeTree: the versions of a key
\* collapse into the one inserted last.
CompactKey(versions) ==
  Doomed(versions) \o
    (IF Live(versions) = <<>> THEN <<>>
     ELSE <<Live(versions)[Len(Live(versions))]>>)

Compact(t) == [k \in Keys |-> CompactKey(t[k])]

\* What a reader sees for k once mutations and merges are done.
LogicalRow(t, k) ==
  IF Live(t[k]) = <<>> THEN NoRow ELSE Live(t[k])[Len(Live(t[k]))].row

\* SELECT count() FROM project_investasi
Count(t) == Len(t["k1"]) + Len(t["k2"])

\* ------------------------------------------------------ sync_daemon helpers
\* A variant of optimize_table that never merges.
optimize_table_noop(t, ok) == t

optimize_table(t, ok) == IF ok THEN Compact(t) ELSE t

delete_from_clickhouse(t, id_root, ok) ==
  IF ok THEN [t EXCEPT ![id_root] = Doom(@)] ELSE t

\* Returns the target and the function's return value.
sync_record_to_clickhouse(t, src, id_root, ok) ==
  IF src[id_root] = NoRow
  THEN [ch |-> t, ret |-> FALSE, kind |-> "notfound"]
  ELSE IF ok
  THEN [ch |-> [t EXCEPT ![id_root] = Append(@, Stored(convert_row(src[id_root])))],
        ret |-> TRUE, kind |-> "upsert"]
  ELSE [ch |-> t, ret |-> FALSE, kind |-> "upsert"]

\* pending_ids[id_root] = operation: a key already in the dict keeps its place.
\* A variant of the dict assignment in which a key keeps its first operation.
DictSet_keepfirst(d, n) ==
  IF \E i \in 1..Len(d) : d[i].id_root = n.id_root THEN d ELSE Append(d, n)

DictSet(d, n) ==
  IF \E i \in 1..Len(d) : d[i].id_root = n.id_root
  THEN [i \in 1..Len(d) |-> IF d[i].id_root = n.id_root THEN n ELSE d[i]]
  ELSE Append(d, n)

\* Payloads that the trigger does not send but any session may NOTIFY: text
\* that is not JSON, a JSON value that is not an object (an array), and an
\* object without id_root. A notification is written as what its payload
\* decodes to.
BadText == [id_root |-> NULL, operation |-> "not JSON"]
BadValue == [id_root |-> NULL, operation |-> "JSON array"]
BadObject == [id_root |-> NULL, operation |-> "UPDATE"]
Malformed == {BadText, BadValue, BadObject}

\* json.loads(notify.payload): the exception it raises or the type it returns.
json_loads(n) ==
  IF n = BadText THEN "JSONDecodeError" ELSE IF n = BadValue THEN "list" ELSE "dict"

\* payload.get(...) raises AttributeError on a value that is no dict, and the
\* try block catches json.JSONDecodeError only.
Raises(q) == \E i \in 1..Len(q) : json_loads(q[i]) = "list"

\* The while loop over pg_listen_conn.notifies, from the first arrival on:
\* undecodable text is logged and dropped, a payload without id_root is
\* skipped by `if id_root:`.
RECURSIVE Collect(_, _)
Collect(q, d) ==
  IF q = <<>> THEN d
  ELSE IF json_loads(Head(q)) = "JSONDecodeError" \/ Head(q).id_root = NULL
  THEN Collect(Tail(q), d)
  ELSE Collect(Tail(q), DictSet(d, Head(q)))

\* A variant in which a failed action ends the for loop.
remaining_abort(p, ok, stop) == IF ok THEN Tail(p) ELSE <<>>

\* A variant in which the for loop examines the shutdown flag.
remaining_cancel(p, ok, stop) == IF stop THEN <<>> ELSE Tail(p)

\* What `for id_root, operation in pending_ids.items()` still has to visit
\* after one iteration: the loop has no break and no test of the action's
\* outcome (ok) or of the shutdown flag (stop).
remaining(p, ok, stop) == Tail(p)

\* `if not rows: return` of full_sync: the TRUNCATE and INSERT run only when
\* the SELECT returned rows.
full_sync_loads(rows) == rows # NoRows

\* The finally block: pg_listen_conn.close() and pg_data_conn.close(); the
\* ClickHouse client is not closed.
finally_closes(open) == open \ {"notify", "data"}

\* wait_time = min(30, 2 ** retry_count), computed after `retry_count += 1`.
backoff_wait(count) == IF 2 ^ count < 30 THEN 2 ^ count ELSE 30

\* The handler a session's exception lands in.
\* A variant in which a failed session ends the process.
on_exception_exit(at) == "exited"

\* A variant in which a failure of full_sync is swallowed and the session
\* goes on to stream.
on_exception_swallow(at) ==
  IF at \in {"fs_read", "fs_insert"} THEN "loop" ELSE "backoff"

on_exception(at) == "backoff"

\* No verify_sync has run yet.
NoReport == [ran |-> FALSE, pg_count |-> 0, ch_count |-> 0, synced |-> FALSE, diff |-> 0]

\* --------------------------------------------------------------------- Init
\* The daemon starts against an empty source and a target that is empty or
\* still holds what an earlier run loaded for k1.
Init ==
  /\ pg = NoRows
  /\ ch \in {EmptyTable,
             [EmptyTable EXCEPT !["k1"] = <<Stored(convert_row(SourceRow("k1", TRUE)))>>]}
  /\ notifies = <<>>
  /\ listening = FALSE
  /\ pc = "connect"
  /\ retry_count = 0
  /\ shutdown = FALSE
  /\ exit_status = -1
  /\ fs_rows = NoRows
  /\ pending = <<>>
  /\ synced = FALSE
  /\ op_pc = "idle"
  /\ op_rows = NoRows
  /\ wait_time = 0
  /\ conns = {}
  /\ report = NoReport
  /\ last_sync = NULL
  /\ cli_status = -1
  /\ session = 0
  /\ fs_done = FALSE
  /\ drained = <<>>
  /\ acts = <<>>
  /\ nfresh = 0
  /\ recent = {}
  /\ ups = [k \in Keys |-> 0]

daemon_vars ==
  <<pc, retry_count, exit_status, fs_rows, pending, synced, session, fs_done,
    drained, acts, wait_time, conns>>
op_vars == <<op_pc, op_rows, report, last_sync, cli_status>>

\* ------------------------------------------------ the source and its trigger
\* A committed INSERT, UPDATE or DELETE of key k by the administrative
\* surface; the row's trigger notifies the channel, which reaches the daemon
\* only while its subscription is active.
Commit(k, new) ==
  /\ new # pg[k]
  /\ listening => Len(notifies) < MaxNotifies
  /\ pg' = [pg EXCEPT ![k] = new]
  /\ LET operation == IF pg[k] = NoRow THEN "INSERT"
                      ELSE IF new = NoRow THEN "DELETE" ELSE "UPDATE"
     IN notifies' = IF listening
                    THEN Append(notifies, [id_root |-> k, operation |-> operation])
                    ELSE notifies
  /\ nfresh' = IF listening THEN nfresh + 1 ELSE nfresh
  /\ ups' = [ups EXCEPT ![k] = 0]
  /\ UNCHANGED <<ch, listening, shutdown, recent>>
  /\ UNCHANGED daemon_vars
  /\ UNCHANGED op_vars

\* Some session of the source database runs NOTIFY project_changes with a
\* payload of its own.
NotifyRaw(n) ==
  /\ listening
  /\ Len(notifies) < MaxNotifies
  /\ notifies' = Append(notifies, n)
  /\ nfresh' = nfresh + 1
  /\ UNCHANGED <<pg, ch, listening, shutdown, recent, ups>>
  /\ UNCHANGED daemon_vars
  /\ UNCHANGED op_vars

\* One debounce window (DEBOUNCE_SECONDS = 1.0) of time passes.
Tick ==
  /\ nfresh' = 0
  /\ recent' = {}
  /\ pending' = [i \in 1..Len(pending) |-> [pending[i] EXCEPT !.cur = FALSE]]
  /\ UNCHANGED <<pg, ch, notifies, listening, pc, retry_count, shutdown,
                 exit_status, fs_rows, synced, fs_done, drained, acts, ups>>
  /\ UNCHANGED <<op_vars, session, wait_time, conns>>

\* --------------------------------------------------------- the target engine
\* The engine finishes the pending DELETE mutations.
ApplyMutation ==
  /\ \E k \in Keys : Doomed(ch[k]) # <<>>
  /\ ch' = [k \in Keys |-> Live(ch[k])]
  /\ UNCHANGED <<pg, notifies, listening, shutdown, nfresh, recent, ups>>
  /\ UNCHANGED daemon_vars
  /\ UNCHANGED op_vars

\* A background merge of the ReplacingMergeTree.
BackgroundMerge ==
  /\ ch # Compact(ch)
  /\ ch' = Compact(ch)
  /\ UNCHANGED <<pg, notifies, listening, shutdown, nfresh, recent, ups>>
  /\ UNCHANGED daemon_vars
  /\ UNCHANGED op_vars

\* ---------------------------------------------------------------- the daemon
\* SIGINT or SIGTERM: signal_handler sets the event.
Signal ==
  /\ ~shutdown
  /\ exit_status = -1
  /\ shutdown' = TRUE
  /\ UNCHANGED <<pg, ch, notifies, listening, nfresh, recent, ups>>
  /\ UNCHANGED daemon_vars
  /\ UNCHANGED op_vars

\* The outer loop's test passes and the three connections open.
Connect ==
  /\ pc = "connect"
  /\ ~shutdown /\ retry_count < max_retries
  /\ pc' = "listen"
  /\ fs_done' = FALSE
  /\ session' = IF session < 2 THEN session + 1 ELSE session
  /\ conns' = {"notify", "data", "target"}
  /\ UNCHANGED <<pg, ch, notifies, listening, retry_count, shutdown, exit_status,
                 fs_rows, pending, synced, drained, acts, nfresh, recent, ups>>
  /\ UNCHANGED <<op_vars, wait_time>>

\* A variant in which the session goes on to its bootstrap without having
\* subscribed.
Listen_unsubscribed ==
  /\ pc = "listen"
  /\ pc' = "fs_read"
  /\ UNCHANGED <<pg, ch, notifies, listening, nfresh, retry_count, shutdown,
                 exit_status, fs_rows, pending, synced, fs_done, drained, acts, recent,
                 ups>>
  /\ UNCHANGED <<op_vars, session, wait_time, conns>>

\* LISTEN project_changes
Listen ==
  /\ pc = "listen"
  /\ listening' = TRUE
  /\ notifies' = <<>>
  /\ nfresh' = 0
  /\ pc' = "fs_read"
  /\ UNCHANGED <<pg, ch, retry_count, shutdown, exit_status, fs_rows, pending,
                 synced, fs_done, drained, acts, recent, ups>>
  /\ UNCHANGED <<op_vars, session, wait_time, conns>>

\* A variant of full_sync that does not truncate before its INSERT.
FullSyncRead_notruncate ==
  /\ pc = "fs_read"
  /\ IF full_sync_loads(pg)
     THEN /\ fs_rows' = pg
          /\ pc' = "fs_insert"
          /\ UNCHANGED <<ch, ups, retry_count, fs_done>>
     ELSE /\ pc' = "loop"
          /\ retry_count' = 0
          /\ fs_done' = TRUE
          /\ UNCHANGED <<ch, fs_rows, ups>>
  /\ UNCHANGED <<pg, notifies, listening, shutdown, exit_status, pending, synced,
                 drained, acts, nfresh, recent>>
  /\ UNCHANGED <<op_vars, session, wait_time, conns>>

\* full_sync up to and including TRUNCATE; with no rows it returns at once and
\* main resets retry_count.
FullSyncRead ==
  /\ pc = "fs_read"
  /\ IF full_sync_loads(pg)
     THEN /\ ch' = EmptyTable
          /\ fs_rows' = pg
          /\ pc' = "fs_insert"
          /\ ups' = [k \in Keys |-> 0]
          /\ UNCHANGED <<retry_count, fs_done>>
     ELSE /\ pc' = "loop"
          /\ retry_count' = 0
          /\ fs_done' = TRUE
          /\ UNCHANGED <<ch, fs_rows, ups>>
  /\ UNCHANGED <<pg, notifies, listening, shutdown, exit_status, pending, synced,
                 drained, acts, nfresh, recent>>
  /\ UNCHANGED <<op_vars, session, wait_time, conns>>

\* A variant in which main does not reset retry_count after full_sync.
FullSyncInsert_noreset ==
  /\ pc = "fs_insert"
  /\ \A k \in Keys : fs_rows[k] # NoRow => Len(ch[k]) < MaxVersions
  /\ ch' = InsertRows(ch, [k \in Keys |-> IF fs_rows[k] = NoRow THEN NoRow
                                          ELSE convert_row(fs_rows[k])])
  /\ fs_rows' = NoRows
  /\ fs_done' = TRUE
  /\ pc' = "loop"
  /\ ups' = [k \in Keys |-> 0]
  /\ UNCHANGED <<pg, notifies, listening, retry_count, shutdown, exit_status, pending,
                 synced, drained, acts, nfresh, recent>>
  /\ UNCHANGED <<op_vars, session, wait_time, conns>>

\* full_sync's bulk INSERT and return; main resets retry_count.
FullSyncInsert ==
  /\ pc = "fs_insert"
  /\ \A k \in Keys : fs_rows[k] # NoRow => Len(ch[k]) < MaxVersions
  /\ ch' = InsertRows(ch, [k \in Keys |-> IF fs_rows[k] = NoRow THEN NoRow
                                          ELSE convert_row(fs_rows[k])])
  /\ fs_rows' = NoRows
  /\ retry_count' = 0
  /\ fs_done' = TRUE
  /\ pc' = "loop"
  /\ ups' = [k \in Keys |-> 0]
  /\ UNCHANGED <<pg, notifies, listening, shutdown, exit_status, pending, synced,
                 drained, acts, nfresh, recent>>
  /\ UNCHANGED <<op_vars, session, wait_time, conns>>

\* A variant in which the event loop does not test the shutdown flag.
LoopCheck_noflag ==
  /\ pc = "loop"
  /\ pc' = "select"
  /\ UNCHANGED <<pg, ch, notifies, listening, retry_count, shutdown, exit_status,
                 fs_rows, pending, synced, fs_done, drained, acts, nfresh, recent, ups>>
  /\ UNCHANGED <<op_vars, session, wait_time, conns>>

\* `while not shutdown_event.is_set()` of the event loop; leaving the loop
\* runs the finally block, which closes the PostgreSQL connections.
LoopCheck ==
  /\ pc = "loop"
  /\ IF shutdown
     THEN /\ pc' = "connect"
          /\ listening' = FALSE
          /\ notifies' = <<>>
          /\ nfresh' = 0
          /\ conns' = finally_closes(conns)
     ELSE /\ pc' = "select"
          /\ UNCHANGED <<listening, notifies, nfresh, conns>>
  /\ UNCHANGED <<pg, ch, retry_count, shutdown, exit_status, fs_rows, pending,
                 synced, fs_done, drained, acts, recent, ups>>
  /\ UNCHANGED <<op_vars, session, wait_time>>

\* select() returns empty after its timeout of DEBOUNCE_SECONDS.
SelectTimeout ==
  /\ pc = "select"
  /\ notifies = <<>>
  /\ pc' = "loop"
  /\ UNCHANGED <<pg, ch, notifies, listening, retry_count, shutdown, exit_status,
                 fs_rows, pending, synced, fs_done, drained, acts, nfresh, recent, ups>>
  /\ UNCHANGED <<op_vars, session, wait_time, conns>>

\* A variant of the drain that pops only the oldest notification and leaves
\* the others queued for the next flush.
Drain_first ==
  /\ pc = "select"
  /\ notifies # <<>>
  /\ ~Raises(notifies)
  /\ pending' =
       LET d == Collect(<<Head(notifies)>>, <<>>)
       IN [i \in 1..Len(d) |->
             [id_root |-> d[i].id_root, operation |-> d[i].operation, cur |-> TRUE]]
  /\ drained' = <<Head(notifies)>>
  /\ notifies' = Tail(notifies)
  /\ nfresh' = IF nfresh < Len(notifies') THEN nfresh ELSE Len(notifies')
  /\ synced' = FALSE
  /\ acts' = <<>>
  /\ pc' = IF pending' = <<>> THEN "optimize" ELSE "apply"
  /\ UNCHANGED <<pg, ch, listening, retry_count, shutdown, exit_status, fs_rows,
                 fs_done, recent, ups>>
  /\ UNCHANGED <<op_vars, session, wait_time, conns>>

\* select() returns the readable connection; process_notifications polls and
\* drains everything queued into pending_ids.
Drain ==
  /\ pc = "select"
  /\ notifies # <<>>
  /\ ~Raises(notifies)
  /\ pending' =
       LET d == Collect(notifies, <<>>)
           lastof(k) == CHOOSE i \in 1..Len(notifies) :
                          /\ notifies[i].id_root = k
                          /\ \A j \in (i + 1)..Len(notifies) : notifies[j].id_root # k
       IN [i \in 1..Len(d) |->
             [id_root |-> d[i].id_root, operation |-> d[i].operation,
              cur |-> lastof(d[i].id_root) > Len(notifies) - nfresh]]
  /\ drained' = notifies
  /\ notifies' = <<>>
  /\ nfresh' = 0
  /\ synced' = FALSE
  /\ acts' = <<>>
  /\ pc' = IF pending' = <<>> THEN "optimize" ELSE "apply"
  /\ UNCHANGED <<pg, ch, listening, retry_count, shutdown, exit_status, fs_rows,
                 fs_done, recent, ups>>
  /\ UNCHANGED <<op_vars, session, wait_time, conns>>

\* select() returns the readable connection and process_notifications pops
\* the queue up to a payload that is no JSON object: the AttributeError leaves
\* process_notifications and the try block, and pending_ids is lost.
DrainFail ==
  /\ pc = "select"
  /\ Raises(notifies)
  /\ LET i == CHOOSE j \in 1..Len(notifies) :
                 /\ json_loads(notifies[j]) = "list"
                 /\ \A l \in 1..(j - 1) : json_loads(notifies[l]) # "list"
     IN /\ notifies' = SubSeq(notifies, i + 1, Len(notifies))
        /\ nfresh' = IF nfresh < Len(notifies) - i THEN nfresh ELSE Len(notifies) - i
  /\ pc' = on_exception(pc)
  /\ fs_done' = IF pc' = "backoff" THEN FALSE ELSE fs_done
  /\ UNCHANGED <<pg, ch, listening, retry_count, shutdown, exit_status, fs_rows,
                 pending, synced, drained, acts, recent, ups>>
  /\ UNCHANGED <<op_vars, session, wait_time, conns>>

\* One iteration of `for id_root, operation in pending_ids.items()`; ok tells
\* whether the target accepts the statement.
ApplyKey(ok) ==
  /\ pc = "apply"
  /\ LET e == Head(pending)
         k == e.id_root
         r == sync_record_to_clickhouse(ch, pg, k, ok)
     IN /\ IF e.operation = "DELETE"
           THEN /\ ch' = delete_from_clickhouse(ch, k, ok)
                /\ synced' = TRUE
                /\ acts' = Append(acts, [id_root |-> k, kind |-> "delete",
                                         read |-> FALSE, ok |-> ok])
                /\ ups' = [ups EXCEPT ![k] = 0]
           ELSE /\ r.ret => Len(ch[k]) < MaxVersions
                /\ ch' = r.ch
                /\ synced' = (synced \/ r.ret)
                /\ acts' = Append(acts, [id_root |-> k, kind |-> r.kind,
                                         read |-> TRUE, ok |-> ok])
                /\ ups' = IF r.ret
                          THEN [ups EXCEPT ![k] = IF @ < 2 THEN @ + 1 ELSE @]
                          ELSE ups
        /\ recent' = IF e.cur THEN recent \cup {k} ELSE recent
  /\ pending' = remaining(pending, ok, shutdown)
  /\ pc' = IF pending' = <<>> THEN "optimize" ELSE "apply"
  /\ UNCHANGED <<pg, notifies, listening, retry_count, shutdown, exit_status,
                 fs_rows, fs_done, drained, nfresh>>
  /\ UNCHANGED <<op_vars, session, wait_time, conns>>

\* A variant in which a failed OPTIMIZE is not caught and ends the session.
FlushEnd_fatal(ok) ==
  /\ pc = "optimize"
  /\ ch' = IF synced THEN optimize_table(ch, ok) ELSE ch
  /\ synced' = FALSE
  /\ drained' = <<>>
  /\ acts' = <<>>
  /\ pc' = IF synced /\ ~ok THEN "backoff" ELSE "loop"
  /\ UNCHANGED <<pg, notifies, listening, retry_count, shutdown, exit_status,
                 fs_rows, pending, fs_done, nfresh, recent, ups>>
  /\ UNCHANGED <<op_vars, session, wait_time, conns>>

\* `if synced: optimize_table(ch_client)` and the return to the event loop.
FlushEnd(ok) ==
  /\ pc = "optimize"
  /\ ch' = IF synced THEN optimize_table(ch, ok) ELSE ch
  /\ synced' = FALSE
  /\ drained' = <<>>
  /\ acts' = <<>>
  /\ pc' = "loop"
  /\ UNCHANGED <<pg, notifies, listening, retry_count, shutdown, exit_status,
                 fs_rows, pending, fs_done, nfresh, recent, ups>>
  /\ UNCHANGED <<op_vars, session, wait_time, conns>>

\* A variant in which the source read error of an upsert is caught inside the
\* flush, which goes on with its next key.
SessionFail_skipkey ==
  /\ \/ pc = "connect" /\ ~shutdown /\ retry_count < max_retries
     \/ pc \in {"listen", "fs_read", "fs_insert", "select"}
     \/ pc = "apply" /\ Head(pending).operation # "DELETE"
  /\ IF pc = "apply"
     THEN /\ pending' = Tail(pending)
          /\ pc' = IF pending' = <<>> THEN "optimize" ELSE "apply"
          /\ UNCHANGED <<fs_rows, synced, drained, acts, fs_done>>
     ELSE /\ pc' = on_exception(pc)
          /\ fs_rows' = NoRows
          /\ pending' = <<>>
          /\ synced' = FALSE
          /\ drained' = <<>>
          /\ acts' = <<>>
          /\ fs_done' = FALSE
  /\ UNCHANGED <<pg, ch, notifies, listening, retry_count, shutdown, exit_status,
                 nfresh, recent, ups>>
  /\ UNCHANGED <<op_vars, session, wait_time, conns>>

\* An exception leaves the try block: connecting, LISTEN, full_sync, select,
\* poll or the source read of an upsert failed.
SessionFail ==
  /\ \/ pc = "connect" /\ ~shutdown /\ retry_count < max_retries
     \/ pc \in {"listen", "fs_read", "fs_insert", "select"}
     \/ pc = "apply" /\ Head(pending).operation # "DELETE"
  /\ pc' = on_exception(pc)
  /\ fs_rows' = NoRows
  /\ pending' = <<>>
  /\ synced' = FALSE
  /\ drained' = <<>>
  /\ acts' = <<>>
  /\ fs_done' = IF pc' = "backoff" THEN FALSE ELSE fs_done
  /\ UNCHANGED <<pg, ch, notifies, listening, retry_count, shutdown, exit_status,
                 nfresh, recent, ups>>
  /\ UNCHANGED <<op_vars, session, wait_time, conns>>

\* A variant of the except block that does not count the failure.
Backoff_nocount ==
  /\ pc = "backoff"
  /\ wait_time' = backoff_wait(retry_count)
  /\ listening' = FALSE
  /\ notifies' = <<>>
  /\ nfresh' = 0
  /\ pc' = "connect"
  /\ conns' = finally_closes(conns)
  /\ UNCHANGED <<pg, ch, retry_count, shutdown, exit_status, fs_rows, pending, synced,
                 fs_done, drained, acts, recent, ups>>
  /\ UNCHANGED <<op_vars, session>>

\* The except block (count, sleep) and the finally block (close).
Backoff ==
  /\ pc = "backoff"
  /\ retry_count' = retry_count + 1
  /\ wait_time' = backoff_wait(retry_count')
  /\ listening' = FALSE
  /\ notifies' = <<>>
  /\ nfresh' = 0
  /\ pc' = "connect"
  /\ conns' = finally_closes(conns)
  /\ UNCHANGED <<pg, ch, shutdown, exit_status, fs_rows, pending, synced, fs_done,
                 drained, acts, recent, ups>>
  /\ UNCHANGED <<op_vars, session>>

\* The outer loop's test fails; main logs and returns.
Exit ==
  /\ pc = "connect"
  /\ shutdown \/ retry_count >= max_retries
  /\ pc' = "exited"
  /\ exit_status' = 0
  /\ UNCHANGED <<pg, ch, notifies, listening, retry_count, shutdown, fs_rows,
                 pending, synced, fs_done, drained, acts, nfresh, recent, ups>>
  /\ UNCHANGED <<op_vars, session, wait_time, conns>>

\* ------------------------------------------- the operator's full resync (etl)
\* PostgresDB.get_projects_for_sync(since): every row, or with a cursor the
\* rows WHERE updated_at > since (a NULL updated_at never satisfies it).
get_projects_for_sync(src, since) ==
  [k \in Keys |->
     IF src[k] = NoRow THEN NoRow
     ELSE IF since = NULL THEN src[k]
     ELSE IF src[k][8] # NULL /\ Instant(src[k][8]) > Instant(since) THEN src[k]
     ELSE NoRow]

\* The readings datetime.now() can give after the rows were fetched: none of
\* them was stamped later than that.
Now(rows) ==
  {t \in Clock : \A k \in Keys : rows[k] # NoRow => Instant(rows[k][8]) <= Instant(t)}

\* sync.sync(full): the operator starts a bulk run, full_sync() or
\* incremental_sync().
OpSync(full) ==
  /\ op_pc = "idle"
  /\ op_pc' = IF full THEN "full_sync" ELSE "incremental_sync"
  /\ UNCHANGED <<pg, ch, notifies, listening, shutdown, nfresh, recent, ups, op_rows,
                 report, last_sync>>
  /\ UNCHANGED cli_status
  /\ UNCHANGED daemon_vars

\* sync.full_sync: get_projects_for_sync(); with no projects it returns 0.
OpFullSyncRead ==
  /\ op_pc = "full_sync"
  /\ IF get_projects_for_sync(pg, NULL) # NoRows
     THEN op_rows' = get_projects_for_sync(pg, NULL) /\ op_pc' = "truncate"
     ELSE op_pc' = "idle" /\ UNCHANGED op_rows
  /\ UNCHANGED <<report, last_sync>>
  /\ UNCHANGED <<pg, ch, notifies, listening, shutdown, nfresh, recent, ups>>
  /\ UNCHANGED cli_status
  /\ UNCHANGED daemon_vars

\* ch_db.truncate_table()
OpTruncate ==
  /\ op_pc = "truncate"
  /\ ch' = EmptyTable
  /\ op_pc' = "insert"
  /\ ups' = [k \in Keys |-> 0]
  /\ UNCHANGED <<pg, notifies, listening, shutdown, nfresh, recent, op_rows, report,
                 last_sync>>
  /\ UNCHANGED cli_status
  /\ UNCHANGED daemon_vars

\* ch_db.insert_projects(projects), then save_last_sync_time(timestamp) with
\* timestamp = datetime.now().isoformat()
OpInsert ==
  /\ op_pc = "insert"
  /\ \A k \in Keys : op_rows[k] # NoRow => Len(ch[k]) < MaxVersions
  /\ ch' = InsertRows(ch, [k \in Keys |-> IF op_rows[k] = NoRow THEN NoRow
                                          ELSE insert_projects_row(op_rows[k])])
  /\ op_pc' = "idle"
  /\ op_rows' = NoRows
  /\ \E now \in Now(op_rows) : last_sync' = now
  /\ ups' = [k \in Keys |-> 0]
  /\ UNCHANGED <<pg, notifies, listening, shutdown, nfresh, recent, report>>
  /\ UNCHANGED cli_status
  /\ UNCHANGED daemon_vars

\* sync.incremental_sync up to its insert: last_sync = get_last_sync_time();
\* without a cursor it returns full_sync(); with one it fetches the rows
\* changed since the cursor and returns 0 when there are none.
OpIncrementalRead ==
  /\ op_pc = "incremental_sync"
  /\ IF last_sync = NULL
     THEN op_pc' = "full_sync" /\ UNCHANGED op_rows
     ELSE IF get_projects_for_sync(pg, last_sync) # NoRows
          THEN op_rows' = get_projects_for_sync(pg, last_sync) /\ op_pc' = "append"
          ELSE op_pc' = "idle" /\ UNCHANGED op_rows
  /\ UNCHANGED <<pg, ch, notifies, listening, shutdown, nfresh, recent, ups, report,
                 last_sync>>
  /\ UNCHANGED cli_status
  /\ UNCHANGED daemon_vars

\* A variant of the incremental insert that replaces the target's contents
\* by the fetched rows.
OpAppend_replace ==
  /\ op_pc = "append"
  /\ ch' = InsertRows(EmptyTable,
                      [k \in Keys |-> IF op_rows[k] = NoRow THEN NoRow
                                      ELSE insert_projects_row(op_rows[k])])
  /\ op_pc' = "idle"
  /\ op_rows' = NoRows
  /\ \E now \in Now(op_rows) : last_sync' = now
  /\ ups' = [k \in Keys |-> 0]
  /\ UNCHANGED <<pg, notifies, listening, shutdown, nfresh, recent, report>>
  /\ UNCHANGED cli_status
  /\ UNCHANGED daemon_vars

\* incremental_sync: ch_db.insert_projects(projects) without a truncate, then
\* save_last_sync_time(datetime.now().isoformat())
OpAppend ==
  /\ op_pc = "append"
  /\ \A k \in Keys : op_rows[k] # NoRow => Len(ch[k]) < MaxVersions
  /\ ch' = InsertRows(ch, [k \in Keys |-> IF op_rows[k] = NoRow THEN NoRow
                                          ELSE insert_projects_row(op_rows[k])])
  /\ op_pc' = "idle"
  /\ op_rows' = NoRows
  /\ \E now \in Now(op_rows) : last_sync' = now
  /\ ups' = [k \in Keys |-> 0]
  /\ UNCHANGED <<pg, notifies, listening, shutdown, nfresh, recent, report>>
  /\ UNCHANGED cli_status
  /\ UNCHANGED daemon_vars

\* A bulk run whose target statement raises: the exception leaves full_sync or
\* incremental_sync before save_last_sync_time and ends the command.
OpFail ==
  /\ op_pc \in {"truncate", "insert", "append"}
  /\ op_pc' = "idle"
  /\ op_rows' = NoRows
  /\ UNCHANGED <<pg, ch, notifies, listening, shutdown, nfresh, recent, ups, report,
                 last_sync>>
  /\ UNCHANGED cli_status
  /\ UNCHANGED daemon_vars

\* pg_db.count_projects(): SELECT COUNT(*) FROM project_investasi
count_projects(src) == Cardinality({k \in Keys : src[k] # NoRow})

\* A variant of verify_sync that accepts a target with at least the source's
\* number of rows.
verify_sync_atleast(pg_count, ch_count) ==
  [ran |-> TRUE, pg_count |-> pg_count, ch_count |-> ch_count,
   synced |-> (pg_count <= ch_count),
   diff |-> IF pg_count <= ch_count THEN 0 ELSE pg_count - ch_count]

\* verify_sync's comparison: True when the counts are equal, otherwise False
\* with diff = abs(pg_count - ch_count) printed.
verify_sync(pg_count, ch_count) ==
  [ran |-> TRUE, pg_count |-> pg_count, ch_count |-> ch_count,
   synced |-> (pg_count = ch_count),
   diff |-> IF pg_count = ch_count THEN 0
            ELSE IF pg_count > ch_count THEN pg_count - ch_count
            ELSE ch_count - pg_count]

\* verify_sync: pg_count = pg_db.count_projects()
OpVerifyRead ==
  /\ op_pc = "idle"
  /\ op_pc' = "verify"
  /\ report' = [NoReport EXCEPT !.pg_count = count_projects(pg)]
  /\ UNCHANGED <<pg, ch, notifies, listening, shutdown, nfresh, recent, ups, op_rows,
                 last_sync>>
  /\ UNCHANGED cli_status
  /\ UNCHANGED daemon_vars

\* cli.verify: `raise typer.Exit(0 if is_synced else 1)`, inside the try
\* block.
raise_exit(is_synced) == [class |-> "Exit", code |-> IF is_synced THEN 0 ELSE 1]

\* The exception classes `except Exception` catches: typer.Exit is click's
\* Exit, a RuntimeError; a failed check raises an error of the database
\* driver.
IsException(e) == e.class \in {"Exit", "Error"}

\* cli.verify's try statement: what `except Exception` catches leaves with
\* typer.Exit(1); the command's exit status.
cli_verify(e) == IF IsException(e) THEN 1 ELSE e.code

\* A variant of the report that repairs a mismatch by emptying the target.
OpVerifyReport_repair ==
  /\ op_pc = "verify"
  /\ op_pc' = "idle"
  /\ report' = verify_sync(report.pg_count, Count(ch))
  /\ ch' = IF report'.synced THEN ch ELSE EmptyTable
  /\ UNCHANGED <<pg, notifies, listening, shutdown, nfresh, recent, ups, op_rows,
                 last_sync>>
  /\ cli_status' = cli_verify(raise_exit(report'.synced))
  /\ UNCHANGED daemon_vars

\* verify_sync: ch_count = ch_db.get_project_count(), the comparison and the
\* printed verdict.
OpVerifyReport ==
  /\ op_pc = "verify"
  /\ op_pc' = "idle"
  /\ report' = verify_sync(report.pg_count, Count(ch))
  /\ UNCHANGED <<pg, ch, notifies, listening, shutdown, nfresh, recent, ups, op_rows,
                 last_sync>>
  /\ cli_status' = cli_verify(raise_exit(report'.synced))
  /\ UNCHANGED daemon_vars

\* verify_sync raises (a store cannot be reached or refuses the count): no
\* verdict is printed and cli.verify's except block exits with status 1.
OpVerifyFail ==
  /\ op_pc = "verify"
  /\ op_pc' = "idle"
  /\ report' = NoReport
  /\ cli_status' = cli_verify([class |-> "Error", code |-> 1])
  /\ UNCHANGED <<pg, ch, notifies, listening, shutdown, nfresh, recent, ups, op_rows,
                 last_sync>>
  /\ UNCHANGED daemon_vars

\* ------------------------------------------------------------ specifications
Source == \E k \in Keys : \E new \in SourceRows(k) \cup {NoRow} : Commit(k, new)

\* The administrative surface working on one project only.
SourceOne == \E new \in SourceRows("k1") \cup {NoRow} : Commit("k1", new)

Engine == ApplyMutation \/ BackgroundMerge

Session ==
  \/ Connect \/ Listen \/ FullSyncRead \/ FullSyncInsert
  \/ LoopCheck \/ SelectTimeout \/ Drain

\* The daemon with every failure it handles, the source and the engine; at
\* most MaxFailures sessions fail in a row.
Next ==
  \/ Session
  \/ \E ok \in BOOLEAN : ApplyKey(ok)
  \/ \E ok \in BOOLEAN : FlushEnd(ok)
  \/ (retry_count < MaxFailures /\ SessionFail)
  \/ Backoff
  \/ Signal \/ Exit
  \/ Source \/ Engine

Spec == Init /\ [][Next]_vars

\* The daemon while no connection and no target statement fails.
NextOk ==
  \/ Session \/ ApplyKey(TRUE) \/ FlushEnd(TRUE)
  \/ Source \/ Engine

SpecOk == Init /\ [][NextOk]_vars

\* The same with the passing of seconds.
NextTimed ==
  \/ Session \/ ApplyKey(TRUE) \/ FlushEnd(TRUE)
  \/ Tick
  \/ Source \/ Engine

SpecTimed == Init /\ [][NextTimed]_vars

\* The operator's full resync, invoked while the failure-free daemon is
\* streaming, over one project.
NextOp ==
  \/ Session \/ ApplyKey(TRUE) \/ FlushEnd(TRUE)
  \/ (fs_done /\ OpSync(TRUE))
  \/ OpSync(TRUE) \/ OpFullSyncRead \/ OpTruncate \/ OpInsert
  \/ SourceOne \/ Engine

SpecOp == Init /\ [][NextOp]_vars

\* The supervisor: the daemon with every failure, any number of failed
\* sessions and the shutdown signal, over one project.
NextSup ==
  \/ Session
  \/ \E ok \in BOOLEAN : ApplyKey(ok)
  \/ \E ok \in BOOLEAN : FlushEnd(ok)
  \/ SessionFail \/ Backoff
  \/ Signal \/ Exit
  \/ SourceOne \/ Engine

SpecSup == Init /\ [][NextSup]_vars

\* The administrative surface inserting and deleting projects before the
\* daemon connects and while it waits in select().
SourceFlush ==
  pc \in {"connect", "select"} /\ \E k \in Keys : Commit(k, SourceRow(k, TRUE)) \/ Commit(k, NoRow)

\* A step of the daemon process itself. Each of its blocking calls ends:
\* select() has a timeout, time.sleep() is finite, and a statement returns or
\* raises.
DaemonStep ==
  \/ Session
  \/ \E ok \in BOOLEAN : ApplyKey(ok)
  \/ \E ok \in BOOLEAN : FlushEnd(ok)
  \/ Backoff \/ Exit

\* The administrative surface inserting and deleting one project.
SourceStop == Commit("k1", SourceRow("k1", TRUE)) \/ Commit("k1", NoRow)

\* The supervisor with at most MaxFailures failed sessions in a row, the
\* shutdown signal at any moment, and a daemon process that keeps running.
NextStop ==
  \/ DaemonStep
  \/ (retry_count < MaxFailures /\ SessionFail)
  \/ Signal
  \/ SourceStop \/ Engine

SpecStop == Init /\ [][NextStop]_vars /\ WF_vars(DaemonStep)

\* The operator's drift check and full resync over two projects while the
\* administrative surface changes the source and the daemon is not running.
NextVerify ==
  \/ OpVerifyRead \/ OpVerifyReport \/ OpVerifyFail
  \/ OpSync(TRUE) \/ OpFullSyncRead \/ OpTruncate \/ OpInsert
  \/ Source

SpecVerify == Init /\ [][NextVerify]_vars

\* The daemon on a channel that also carries payloads of other senders, over
\* one project; nothing fails but the handling of those payloads.
NextRaw ==
  \/ Session \/ ApplyKey(TRUE) \/ FlushEnd(TRUE)
  \/ DrainFail \/ Backoff
  \/ \E n \in Malformed : NotifyRaw(n)
  \/ SourceOne \/ Engine

SpecRaw == Init /\ [][NextRaw]_vars

\* The flushes of the daemon over two projects with target statements that
\* may fail and with the shutdown signal at any moment; no connection fails.
NextFlush ==
  \/ Session
  \/ \E ok \in BOOLEAN : ApplyKey(ok)
  \/ \E ok \in BOOLEAN : FlushEnd(ok)
  \/ Signal \/ Exit
  \/ SourceFlush \/ Engine

SpecFlush == Init /\ [][NextFlush]_vars

\* The operator's bulk runs (full and incremental) and drift checks while the
\* daemon is not running; a target statement of a run may fail, and the
\* engine merges in the background.
NextBulk ==
  \/ \E full \in BOOLEAN : OpSync(full)
  \/ OpFullSyncRead \/ OpTruncate \/ OpInsert
  \/ OpIncrementalRead \/ OpAppend
  \/ OpFail
  \/ OpVerifyRead \/ OpVerifyReport
  \/ Source \/ BackgroundMerge

SpecBulk == Init /\ [][NextBulk]_vars

\* The readings datetime.now() can give at this moment: not earlier than the
\* update time of any row of the source, nor than the saved cursor.
ClockNow ==
  {t \in Clock :
     /\ \A k \in Keys : pg[k] # NoRow => Instant(pg[k][8]) <= Instant(t)
     /\ last_sync # NULL => Instant(last_sync) <= Instant(t)}

\* An INSERT or UPDATE by the administrative surface whose updated_at is the
\* time of its commit: not earlier than any row's update time, and later than
\* a cursor that was saved before it.
CommitNow ==
  \E k \in Keys : \E new \in SourceRows(k) :
    /\ \A j \in Keys : pg[j] # NoRow => Instant(pg[j][8]) <= Instant(new[8])
    /\ last_sync # NULL => Instant(last_sync) < Instant(new[8])
    /\ Commit(k, new)

\* The operator's bulk runs, none of which fails, against a source whose
\* rows are stamped with their commit times; each run saves the time at which
\* it ends.
NextCursor ==
  \/ \E full \in BOOLEAN : OpSync(full)
  \/ OpFullSyncRead \/ OpTruncate
  \/ (OpInsert /\ last_sync' \in ClockNow)
  \/ OpIncrementalRead
  \/ (OpAppend /\ last_sync' \in ClockNow)
  \/ CommitNow \/ BackgroundMerge

SpecCursor == Init /\ [][NextCursor]_vars

\* Any client of the source writing project k1 with any of the three
\* contents, or deleting it, before the daemon connects and while it waits in
\* select().
SourceAdapt ==
  /\ pc \in {"connect", "select"}
  /\ \E new \in SourceRows("k1") \cup {OddRow("k1"), NoRow} : Commit("k1", new)

\* Both paths to the target at work on one project: the failure-free daemon
\* (bootstrap and streaming) and the operator's full resync.
NextAdapt ==
  \/ Session \/ ApplyKey(TRUE) \/ FlushEnd(TRUE)
  \/ OpSync(TRUE) \/ OpFullSyncRead \/ OpTruncate \/ OpInsert
  \/ SourceAdapt \/ ApplyMutation

SpecAdapt == Init /\ [][NextAdapt]_vars

\* The daemon over two projects whose source reads may fail in the middle of
\* a flush; the target accepts every statement.
NextAbort ==
  \/ Session \/ ApplyKey(TRUE) \/ FlushEnd(TRUE)
  \/ (pc = "apply" /\ SessionFail)
  \/ Backoff
  \/ SourceFlush \/ Engine

SpecAbort == Init /\ [][NextAbort]_vars

\* The steps of a daemon none of whose sessions gets through its bootstrap:
\* connecting, LISTEN or full_sync raises in every session.
RetryStep == Connect \/ Listen \/ SessionFail \/ Backoff \/ Exit

\* That daemon beside a source that changes; the daemon process keeps
\* running.
NextRetry == RetryStep \/ SourceStop

SpecRetry == Init /\ [][NextRetry]_vars /\ WF_vars(RetryStep)

\* The daemon has not been started yet.
NotStarted == pc = "connect" /\ session = 0

\* Both full loads over one project, each with statements that may fail: the
\* operator's loads first, then the daemon with at most MaxFailures failed
\* sessions in a row.
NextLoad ==
  \/ (NotStarted /\ OpSync(TRUE))
  \/ (NotStarted /\ OpFullSyncRead)
  \/ (NotStarted /\ OpTruncate)
  \/ (NotStarted /\ OpInsert)
  \/ (NotStarted /\ OpFail)
  \/ (op_pc = "idle" /\ Connect)
  \/ Listen \/ FullSyncRead \/ FullSyncInsert \/ LoopCheck \/ SelectTimeout \/ Drain
  \/ ApplyKey(TRUE) \/ FlushEnd(TRUE)
  \/ (retry_count < MaxFailures /\ SessionFail)
  \/ Backoff
  \/ SourceStop \/ Engine

SpecLoad == Init /\ [][NextLoad]_vars

\* The steps of a streaming daemon whose connections hold.
StreamStep ==
  \/ Session
  \/ \E ok \in BOOLEAN : ApplyKey(ok)
  \/ \E ok \in BOOLEAN : FlushEnd(ok)

\* The steps of the operator's drift check.
VerifyStep == OpVerifyRead \/ OpVerifyReport

\* The daemon streaming one project with target statements that may fail,
\* beside an operator who keeps running drift checks: the daemon's loop and
\* the drift checks keep taking their steps.
NextDrift ==
  \/ StreamStep
  \/ VerifyStep
  \/ SourceStop \/ Engine

SpecDrift ==
  Init /\ [][NextDrift]_vars /\ WF_vars(StreamStep) /\ WF_vars(VerifyStep)

\* ===================================================================== claims
\* The operations a notification queue q holds for key k, in arrival order.
KeyOps(q, k) ==
  LET own == SelectSeq(q, LAMBDA n : n.id_root = k)
  IN [i \in 1..Len(own) |-> own[i].operation]

\* The step is one iteration of the flush over key k.
Applied(k) ==
  /\ pc = "apply"
  /\ pc' \in {"apply", "optimize"}
  /\ Head(pending).id_root = k
  /\ pending' = Tail(pending)

\* The daemon is streaming, every notification has been flushed, and the
\* target has finished its mutations and merges.
Quiescent ==
  /\ pc \in {"loop", "select"}
  /\ notifies = <<>>
  /\ ch = Compact(ch)
  /\ \A k \in Keys : Doomed(ch[k]) = <<>>

\* The target holds exactly the source's keys, each with the adapted row.
TargetMatchesSource ==
  \A k \in Keys :
    ch[k] = IF pg[k] = NoRow THEN <<>> ELSE <<Stored(convert_row(pg[k]))>>

\* C1 (as claimed): with no failure and every change either notified or made
\* before the bootstrap, once the daemon is quiescent the target holds exactly
\* the source's keys, each with the type-adapted current source row.
C1_EventualConsistency == Quiescent => TargetMatchesSource

\* C2 (as claimed): the events for one key that arrive within one debounce
\* window lead to one applied action for that key: no action is applied for
\* an event of the current window when an action for the same key was already
\* applied for an earlier event of that window.
C2_OneActionPerWindow ==
  [][\A k \in Keys : (Applied(k) /\ Head(pending).cur) => k \notin recent]_vars

\* C3: when the flush drained Update(K) and then Delete(K), K has one entry in
\* the pending map, a Delete; one action is applied for K, a delete without a
\* source read and without an upsert; and from then on to the end of the flush
\* the target is without K.
C3_UpdateThenDeleteConverges ==
  \A k \in Keys :
    (pc \in {"apply", "optimize"} /\ KeyOps(drained, k) = <<"UPDATE", "DELETE">>)
    => LET todo == SelectSeq(pending, LAMBDA e : e.id_root = k)
           done == SelectSeq(acts, LAMBDA a : a.id_root = k)
       IN /\ Len(todo) + Len(done) = 1
          /\ \A i \in 1..Len(todo) : todo[i].operation = "DELETE"
          /\ \A i \in 1..Len(done) :
               /\ done[i].kind = "delete"
               /\ ~done[i].read
               /\ LogicalRow(ch, k) = NoRow

\* C3 witness: the flush drained Update(k1), Delete(k1), has applied its one
\* delete, and the versions the target held are marked for removal.
C3_Witness ==
  /\ pc = "optimize"
  /\ drained = <<[id_root |-> "k1", operation |-> "UPDATE"],
                 [id_root |-> "k1", operation |-> "DELETE"]>>
  /\ acts = <<[id_root |-> "k1", kind |-> "delete", read |-> FALSE, ok |-> TRUE]>>
  /\ Doomed(ch["k1"]) # <<>>
  /\ LogicalRow(ch, "k1") = NoRow

\* C4 (as claimed): when an Insert/Update action is applied for K and the
\* source has no row for K at read time, the target is left without K.
C4_MissingRowIsDeleted ==
  [][\A k \in Keys :
       (Applied(k) /\ Head(pending).operation # "DELETE" /\ pg[k] = NoRow)
       => LogicalRow(ch', k) = NoRow]_vars

\* C5 (as claimed): after any applied action for K, whatever its operation,
\* the target's logical state for K is the source's state for K at that time:
\* the adapted row if the source has K, absent if it does not.
C5_ReorderImmunity ==
  [][\A k \in Keys :
       Applied(k)
       => LogicalRow(ch', k) = IF pg[k] = NoRow THEN NoRow ELSE convert_row(pg[k])]_vars

\* C6: with the source row of K unchanged, after one upsert of K and after a
\* second one in sequence the compacted target holds the same thing: one
\* current version of K, the adapted source row.
C6_UpsertIdempotent ==
  \A k \in Keys :
    (pc \in {"loop", "select"} /\ ups[k] \in {1, 2})
    => Live(ch[k]) = <<Stored(convert_row(pg[k]))>>

\* C6 witness: k1 was upserted twice in sequence from an unchanged source row
\* and the flush has compacted the table.
C6_Witness ==
  /\ pc = "loop"
  /\ ups["k1"] = 2
  /\ ch["k1"] = <<Stored(convert_row(pg["k1"]))>>

\* C7 (as claimed): a bootstrap full load that returns without error leaves
\* the target's row count equal to the count of the source rows it read.
C7_BootstrapRestoresCounts ==
  [][/\ (pc = "fs_read" /\ pc' = "loop") => Count(ch') = 0
     /\ (pc = "fs_insert" /\ pc' = "loop")
          => Count(ch') = Cardinality({k \in Keys : fs_rows[k] # NoRow})]_vars

\* C8: in every session, the event loop runs and a flush applies actions only
\* after that session's full_sync has returned normally.
C8_BootstrapBeforeStreaming ==
  /\ pc \in {"loop", "select", "apply", "optimize"} => fs_done
  /\ acts # <<>> => fs_done

\* C8 witness: a flush has applied an action in a session that followed a
\* failed one.
C8_Witness ==
  /\ session = 2
  /\ pc = "optimize"
  /\ acts # <<>>
  /\ fs_done

\* C9 (as claimed): once the operator's full resync and the daemon are both
\* quiescent, every key the source holds is in the target with the adapted
\* current source row: no older row, and no applied upsert lost.
C9_ResyncSafeDuringStreaming ==
  (Quiescent /\ op_pc = "idle")
  => \A k \in Keys :
       pg[k] # NoRow
       => LogicalRow(ch, k) \in {convert_row(pg[k]), insert_projects_row(pg[k])}

\* C10 (as claimed): when the retry budget is exhausted the process exits with
\* a non-zero status.
C10_ExhaustionExitsNonZero ==
  (pc = "exited" /\ retry_count >= max_retries /\ ~shutdown) => exit_status # 0

\* C11 (as claimed): the sleep of a backoff is min(30, 2^attempt) seconds with
\* attempt the counter's value on entry, before the increment (1 second after
\* a healthy session); it never exceeds 30 and does not decrease from one
\* consecutive failure to the next.
C11_BackoffDelay ==
  [][(pc = "backoff" /\ pc' = "connect")
     => /\ wait_time' = (IF 2 ^ retry_count < 30 THEN 2 ^ retry_count ELSE 30)
        /\ wait_time' <= 30
        /\ retry_count > 0 => wait_time' >= wait_time]_vars

\* C12: a failure while connecting, subscribing, bootstrapping or streaming
\* lands in the except block, the except block leads back to the outer loop's
\* test, and the process ends only on a shutdown signal or with the retry
\* budget exhausted.
C12_FailuresGoToBackoff ==
  [][/\ SessionFail => (pc' = "backoff" /\ exit_status' = -1)
     /\ pc = "backoff" => (pc' \in {"backoff", "connect"} /\ exit_status' = -1)
     /\ pc' = "exited" => (shutdown \/ retry_count >= max_retries)]_vars

\* C12 witness: after one failed session and its backoff the daemon has
\* connected again and the process is running.
C12_Witness ==
  /\ pc = "listen"
  /\ retry_count = 1
  /\ session = 2
  /\ wait_time = 2
  /\ exit_status = -1
  /\ ~shutdown

\* The step applies one key of the flush and the target refuses the statement
\* (the insert of an upsert, or the delete).
TargetFailed ==
  /\ pc = "apply"
  /\ Len(acts') = Len(acts) + 1
  /\ ~acts'[Len(acts')].ok
  /\ acts'[Len(acts')].kind # "notfound"

\* C13 (as claimed): a target failure while a flush writes or deletes ends the
\* streaming session: the next position is the except block (backoff), not
\* the rest of the flush.
C13_TargetFailureEndsSession == [][TargetFailed => pc' = "backoff"]_vars

\* The keys of a sequence of records, in order.
Ids(q) == [i \in 1..Len(q) |-> q[i].id_root]

\* Every key the flush drained is either applied, once, or still to visit,
\* in the order of the pending map.
FlushAccounted == Ids(acts) \o Ids(pending) = Ids(Collect(drained, <<>>))

\* C14: a failed upsert or delete does not stop the flush: the next position
\* is the next key or the end of the flush, the session goes on, and every
\* key of the flush is applied exactly once (none skipped, none retried).
C14_FailureDoesNotStopFlush ==
  [][/\ pc' \in {"apply", "optimize"} => FlushAccounted'
     /\ TargetFailed => /\ pc' \in {"apply", "optimize"}
                        /\ pending' = Tail(pending)
                        /\ listening' /\ retry_count' = retry_count]_vars

\* C14 witness: a flush over two keys whose first action failed in the
\* target and whose second action upserted its row.
C14_Witness ==
  /\ pc = "optimize"
  /\ Len(acts) = 2
  /\ ~acts[1].ok /\ acts[1].kind # "notfound"
  /\ acts[2].ok /\ acts[2].kind = "upsert"
  /\ pg[acts[2].id_root] # NoRow
  /\ LogicalRow(ch, acts[2].id_root) = convert_row(pg[acts[2].id_root])

WellFormed(q) == SelectSeq(q, LAMBDA n : n \notin Malformed)

\* C15 (as claimed): when the daemon drains a queue that holds malformed
\* payloads, they are dropped without a target write, the session goes on to
\* the flush, and the pending map holds every key of the other notifications.
C15_MalformedPayloadNotFatal ==
  [][(pc = "select" /\ pc' # "select" /\ \E i \in 1..Len(notifies) : notifies[i] \in Malformed)
     => /\ pc' \in {"apply", "optimize"}
        /\ ch' = ch
        /\ Ids(pending') = Ids(Collect(WellFormed(notifies), <<>>))]_vars

\* C17: once the shutdown flag is set, wherever the daemon stands, it reaches
\* the clean exit (status 0), and it opens no connection after the flag is set.
C17_ShutdownLiveness ==
  /\ shutdown ~> (pc = "exited" /\ exit_status = 0)
  /\ [][shutdown => ~(pc = "connect" /\ pc' = "listen")]_vars

\* C17 witness: the flag was set around a failed session, and the daemon has
\* left through the clean exit without connecting again.
C17_Witness ==
  /\ shutdown
  /\ pc = "exited"
  /\ exit_status = 0
  /\ retry_count = 1
  /\ ~listening

\* C18 (as claimed): a flush that processed at least one key issues its one
\* OPTIMIZE when it ends, whatever the outcome of the key actions: at the
\* step that ends such a flush the guard of optimize_table, synced, is true.
C18_OneCompactionPerFlush ==
  [][(pc = "optimize" /\ pc' = "loop" /\ acts # <<>>) => synced]_vars

\* C19: the step that ends a flush, whether its OPTIMIZE succeeded or failed,
\* returns to the event loop of the same session (no backoff, subscription
\* and retry counter untouched) and leaves in the target what the flush
\* applied: the table as it was, or compacted.
C19_CompactionFailureNotFatal ==
  [][pc = "optimize"
     => /\ pc' \in {"optimize", "loop"}
        /\ pc' = "loop" => /\ ch' \in {ch, Compact(ch)}
                           /\ listening' /\ fs_done'
                           /\ retry_count' = retry_count]_vars

\* C19 witness: a flush upserted k1 over an earlier version, its OPTIMIZE
\* failed, and the daemon is back in the event loop with both versions stored.
C19_Witness ==
  /\ pc = "loop"
  /\ fs_done /\ listening
  /\ retry_count = 0
  /\ Len(Live(ch["k1"])) = 2

\* The step in which verify_sync reads the target count and reports.
VerifyReports == op_pc = "verify" /\ op_pc' = "idle" /\ report'.ran

\* The target holds a key the source does not hold.
ExtraInTarget == \E k \in Keys : pg[k] = NoRow /\ ch[k] # <<>>

\* The source holds a key the target does not hold.
MissingInTarget == \E k \in Keys : pg[k] # NoRow /\ ch[k] = <<>>

\* C20 (amended): the verifier reports in-sync exactly when the counts it read
\* are equal, otherwise drift with the non-zero difference |source count -
\* target count|; and, the source count it read being current, a row present
\* only in the target is reported as drift when no source row is missing from
\* the target.
C20_DriftDetection ==
  [][VerifyReports
     => /\ report'.ch_count = Count(ch)
        /\ report'.synced <=> (report'.pg_count = report'.ch_count)
        /\ ~report'.synced
             => /\ report'.diff > 0
                /\ report'.diff \in {report'.pg_count - report'.ch_count,
                                     report'.ch_count - report'.pg_count}
        /\ (report'.pg_count = count_projects(pg) /\ ExtraInTarget /\ ~MissingInTarget)
             => ~report'.synced]_vars

\* C20 witness: the target holds every source row and one more; the verifier
\* has reported drift by 1.
C20_Witness ==
  /\ op_pc = "idle"
  /\ report.ran /\ ~report.synced /\ report.diff = 1
  /\ report.pg_count = count_projects(pg)
  /\ report.ch_count = Count(ch)
  /\ report.ch_count = report.pg_count + 1
  /\ ExtraInTarget /\ ~MissingInTarget

\* C20 (as claimed): the source count it read being current, a row present
\* only in the target is always reported as drift.
C20_ExtraRowAlwaysDrift ==
  [][VerifyReports
     => ((report'.pg_count = count_projects(pg) /\ ExtraInTarget) => ~report'.synced)]_vars

\* The target holds at least one version of exactly the keys of the source.
SameKeys == \A k \in Keys : (pg[k] # NoRow) <=> (ch[k] # <<>>)

\* C21: the Verifier tolerates uncompacted duplicates: a drift check that
\* counted the source as it is now and finds a target whose key set equals the
\* source's reports the stores in sync, however many stored versions a key
\* has.
C21_DuplicatesTolerated ==
  [][(VerifyReports /\ report.pg_count = count_projects(pg) /\ SameKeys)
       => report'.synced]_vars

\* The step belongs to a drift check: verify_sync starts or returns.
VerifierStep == op_pc' # op_pc /\ "verify" \in {op_pc, op_pc'}

\* C22: the Verifier performs no repair: a step of a drift check leaves the
\* source's contents, the target's contents and the replication cursor as they
\* were, whatever the verdict.
C22_VerifierRepairsNothing ==
  [][VerifierStep => (pg' = pg /\ ch' = ch /\ last_sync' = last_sync)]_vars

\* A drift check has just reported a mismatch, after a bulk run saved a
\* cursor, and the target still holds a key the source lacks.
C22_Witness ==
  /\ op_pc = "idle"
  /\ report.ran /\ ~report.synced
  /\ last_sync # NULL
  /\ \E k \in Keys : pg[k] = NoRow /\ Live(ch[k]) # <<>>

\* The current flush issued the delete of key k and the target refused it.
DeleteFailed(k) ==
  \E i \in 1..Len(acts) :
    acts[i].id_root = k /\ acts[i].kind = "delete" /\ ~acts[i].ok

\* C23: a failed keyed delete is retried later: once the delete of key k has
\* failed in a flush, drift checks that keep running lead to a target that
\* excludes k (unless the source holds k again), without a full resync.
C23_FailedDeleteRetried ==
  \A k \in Keys :
    DeleteFailed(k) ~> (Live(ch[k]) = <<>> \/ pg[k] # NoRow)

\* The allowed values of the two enum columns and their default tokens.
type_investasi_values == {"Murni", "Multi Year", "Carry Forward"}
status_issue_values == {"Open", "Closed"}

\* The step is the streaming path writing key k: the upsert of the applier,
\* or the INSERT of the daemon's bootstrap.
StreamWrites(k) ==
  \/ /\ Applied(k)
     /\ Len(acts') = Len(acts) + 1
     /\ acts'[Len(acts')].kind = "upsert" /\ acts'[Len(acts')].ok
  \/ /\ pc = "fs_insert" /\ pc' = "loop"
     /\ fs_rows[k] # NoRow

\* The step is the bulk path of the operator writing key k.
BulkWrites(k) ==
  /\ op_pc = "insert" /\ op_pc' = "idle"
  /\ op_rows[k] # NoRow
  /\ ch' # ch

\* The source row the writing step adapts, and the row it stores.
Adapted(k) ==
  IF op_pc = "insert" /\ op_pc' = "idle" THEN op_rows[k]
  ELSE IF pc = "fs_insert" THEN fs_rows[k]
  ELSE pg[k]
Written(k) == ch'[k][Len(ch'[k])].row

\* The value an enum column must get: the source value when it is a member of
\* the allowed set, the default token otherwise.
EnumAdapted(value, allowed, default) == IF value \in allowed THEN value ELSE default

\* C24: enum defaulting: on the streaming path and on the bulk path, the value
\* written for type_investasi and for status_issue is a member of the
\* column's allowed set: an absent, empty or non-member source value becomes
\* the default token (Murni, Open) and a member is kept.
C24_EnumDefaulting ==
  [][\A k \in Keys :
       (StreamWrites(k) \/ BulkWrites(k)) =>
          /\ Written(k)[2] = EnumAdapted(Adapted(k)[2], type_investasi_values, "Murni")
          /\ Written(k)[5] = EnumAdapted(Adapted(k)[5], status_issue_values, "Open")]_vars

\* C25: numeric and temporal defaulting: on both paths a missing value of a
\* numeric column (tahun_rkap, rkap) is written as zero and a numeric column
\* is never written as null, while a null value of a temporal column
\* (tanggal_kontrak, updated_at) is written as null.
C25_NumericAndTemporalDefaulting ==
  [][\A k \in Keys :
       (StreamWrites(k) \/ BulkWrites(k)) =>
          /\ \A i \in {3, 6} : /\ Adapted(k)[i] = NULL => Written(k)[i] = "0"
                               /\ Written(k)[i] # NULL
          /\ \A i \in {7, 8} : Adapted(k)[i] = NULL => Written(k)[i] = NULL]_vars

\* C26: timezone normalization: every timestamp written to the target, by the
\* streaming path or by the bulk path, is timezone-naive.
C26_TimestampsNaive ==
  [][\A k \in Keys :
       (StreamWrites(k) \/ BulkWrites(k)) => Written(k)[8] \notin TzAware]_vars

\* C27: the bulk path and the streaming path write identical rows: for every
\* source row, what the daemon's bootstrap and the operator's full resync
\* store is what the streaming applier stores for that row, column by column.
C27_BulkEqualsStreaming ==
  [][\A k \in Keys :
       (BulkWrites(k) \/ (pc = "fs_insert" /\ StreamWrites(k))) =>
          Written(k) = convert_row(Adapted(k))]_vars

\* The step ends a bulk run: full_sync or incremental_sync returns or raises.
BulkRunEnds ==
  /\ op_pc \in {"full_sync", "incremental_sync", "truncate", "insert", "append"}
  /\ op_pc' = "idle"

\* C28: the cursor's lifecycle: only a bulk run that completes touches the
\* cursor, so it stays absent until the first one and the streaming daemon
\* never writes it; every bulk run that completes successfully, a run that
\* finds no rows to transfer included, leaves the cursor set to its timestamp;
\* a failed run leaves the cursor unchanged.
C28_CursorLifecycle ==
  [][/\ last_sync' # last_sync => (BulkRunEnds /\ ~OpFail)
     /\ (BulkRunEnds /\ ~OpFail) => last_sync' \in Clock
     /\ OpFail => last_sync' = last_sync]_vars

\* The source rows whose update time is later than the cursor.
ChangedSince(cursor) ==
  [k \in Keys |-> IF pg[k] # NoRow /\ Instant(pg[k][8]) > Instant(cursor)
                  THEN pg[k] ELSE NoRow]

\* The step adds one stored version for each fetched row and nothing else.
AppendsFetched ==
  \A k \in Keys :
    /\ Len(ch'[k]) = Len(ch[k]) + (IF op_rows[k] = NoRow THEN 0 ELSE 1)
    /\ SubSeq(ch'[k], 1, Len(ch[k])) = ch[k]

\* C29: full load against incremental run: a full load fetches every source
\* row, truncates the target (nothing to truncate when it is empty) and then
\* inserts every fetched row; an incremental run with a cursor never
\* truncates and appends exactly the source rows whose update time is later
\* than the cursor; an incremental run without a cursor is a full load.
C29_FullAndIncremental ==
  [][/\ (op_pc = "full_sync" /\ op_pc' # op_pc) =>
          /\ op_rows' = pg \/ (pg = NoRows /\ op_pc' = "idle")
          /\ op_pc' = "truncate" \/ ch = EmptyTable
     /\ (op_pc = "truncate" /\ op_pc' = "insert") => ch' = EmptyTable
     /\ (op_pc = "insert" /\ op_pc' = "idle" /\ ~OpFail) => AppendsFetched
     /\ (op_pc = "incremental_sync" /\ op_pc' # op_pc) =>
          IF last_sync = NULL
          THEN op_pc' = "full_sync" /\ ch' = ch
          ELSE /\ ch' = ch
               /\ op_pc' \in {"append", "idle"}
               /\ op_pc' = "append" => op_rows' = ChangedSince(last_sync)
               /\ op_pc' = "idle" => ChangedSince(last_sync) = NoRows
     /\ (op_pc = "append" /\ op_pc' = "idle" /\ ~OpFail) => AppendsFetched]_vars

\* The keys named by the notifications of a queue.
QueuedKeys(q) == {q[i].id_root : i \in 1..Len(q)}

\* No element occurs twice in the sequence.
NoRepeat(q) == \A i, j \in 1..Len(q) : q[i] = q[j] => i = j

\* C30: the shape of a loop step: a wait that times out (nothing is queued)
\* goes back to the loop test without a write, a delete or a compaction in the
\* target; a wait that ends on an arrival empties the queue into the pending
\* map, one entry per queued key, before any action of the flush; and during
\* the flush the keys applied and the keys still pending are the drained keys,
\* each of them once.
C30_LoopStepShape ==
  [][/\ (pc = "select" /\ pc' = "loop") =>
          (notifies = <<>> /\ ch' = ch /\ acts' = acts /\ pending' = pending)
     /\ (pc = "select" /\ pc' \in {"apply", "optimize"}) =>
          /\ notifies' = <<>> /\ acts' = <<>> /\ ch' = ch
          /\ QueuedKeys(pending') = QueuedKeys(notifies)
     /\ pc' \in {"apply", "optimize"} =>
          /\ NoRepeat(Ids(acts') \o Ids(pending'))
          /\ QueuedKeys(acts') \cup QueuedKeys(pending') = QueuedKeys(drained')]_vars

\* C30 witness: an arrival drained two notifications for two keys at once and
\* the flush has applied the first key, with the second still pending.
C30_Witness ==
  /\ pc = "apply"
  /\ Len(drained) = 2 /\ drained[1].id_root # drained[2].id_root
  /\ Ids(acts) = <<drained[1].id_root>>
  /\ Ids(pending) = <<drained[2].id_root>>
  /\ notifies = <<>>

\* C31: teardown precedes backoff: while the daemon is in the backoff wait
\* after a failed session, none of the three connections (notify,
\* source-data, target) is open.
C31_TeardownBeforeBackoff == pc = "backoff" => conns = {}

\* C32: an aborted flush: a step that takes a key off the pending map either
\* applies it or is the source read error that ends the flush; that error
\* leaves the target as the applied keys made it, drops the remaining keys
\* and takes the daemon to the backoff; and every flush runs in a session
\* whose bootstrap has completed, so after the error no flush applies
\* anything before backoff, connecting and a complete bootstrap.
C32_AbortedFlush ==
  [][/\ (pc = "apply" /\ pending' # pending) =>
          \/ Len(acts') = Len(acts) + 1 /\ pending' = Tail(pending)
          \/ /\ pc' = "backoff"
             /\ ch' = ch
             /\ pending' = <<>>
             /\ ~fs_done'
     /\ pc = "backoff" => pc' \in {"backoff", "connect"}
     /\ pc' \in {"apply", "optimize"} => fs_done'
     /\ (fs_done' /\ ~fs_done) => pc \in {"fs_read", "fs_insert"}]_vars

\* C32 witness: the daemon is in the backoff after a flush that was aborted
\* with k1 upserted and k2, which the source holds, not yet in the target.
C32_Witness ==
  /\ pc = "backoff"
  /\ ups["k1"] = 1 /\ LogicalRow(ch, "k1") = convert_row(pg["k1"])
  /\ pg["k2"] # NoRow /\ ch["k2"] = <<>>
  /\ pending = <<>>

\* C33: the exit status of the drift-check command: when the verify command
\* ends, its status is 0 exactly when the Verifier reported the stores in
\* sync, and 1 when it reported drift or the check raised an error.
C33_VerifyExitStatus ==
  [][(op_pc = "verify" /\ op_pc' = "idle") =>
       cli_status' = IF report'.ran /\ report'.synced THEN 0 ELSE 1]_vars

\* C34: bounded retries: the counter of consecutive failed sessions never
\* exceeds 30, a connection attempt is made only while it is below 30, after
\* the 30th consecutive failure the daemon only terminates, and a daemon
\* whose sessions never complete a bootstrap always terminates.
C34_BoundedRetries ==
  /\ [](retry_count <= max_retries)
  /\ [][(pc = "connect" /\ pc' # pc) =>
          IF retry_count < max_retries THEN pc' \in {"listen", "backoff"}
          ELSE pc' = "exited"]_vars
  /\ [](pc = "exited" => retry_count = max_retries)
  /\ <>(pc = "exited")

\* C34 witness: the daemon has terminated after 30 consecutive failed
\* sessions, some of which had opened their connections.
C34_Witness ==
  /\ pc = "exited"
  /\ retry_count = max_retries
  /\ wait_time = 30
  /\ session = 2
  /\ ~fs_done

\* C35: the retry counter is reset to zero when a session has connected,
\* subscribed and completed its bootstrap full load, and only then; apart
\* from that it only grows, by one for each failed session, so it counts
\* consecutive failed sessions.
C35_RetryCounterReset ==
  [][/\ (fs_done' /\ ~fs_done) =>
          (retry_count' = 0 /\ listening /\ pc \in {"fs_read", "fs_insert"})
     /\ retry_count' < retry_count => (retry_count' = 0 /\ fs_done' /\ ~fs_done)
     /\ retry_count' > retry_count =>
          (retry_count' = retry_count + 1 /\ pc = "backoff" /\ ~fs_done)]_vars

\* C35 witness: after two consecutive failed sessions a third session has
\* completed its bootstrap and the counter is back at zero.
C35_Witness ==
  /\ pc = "loop"
  /\ fs_done
  /\ retry_count = 0
  /\ wait_time = 4
  /\ listening

\* The session has passed its LISTEN: it is in its bootstrap or streaming.
Subscribed == pc \in {"fs_read", "fs_insert", "loop", "select", "apply", "optimize"}

\* C36: in every session the subscription is active from before the bootstrap
\* reads the source until the session ends; every source change committed in
\* that time queues a notification naming its key, and a queued notification
\* leaves the queue only into the pending map of a flush of that session (or
\* with the session's end): no committed change falls between bootstrap and
\* streaming.
C36_SubscribeBeforeBootstrap ==
  /\ [](Subscribed => listening)
  /\ [][(Subscribed /\ pg' # pg) =>
          /\ Len(notifies') = Len(notifies) + 1
          /\ pg'[notifies'[Len(notifies')].id_root] # pg[notifies'[Len(notifies')].id_root]
          /\ SubSeq(notifies', 1, Len(notifies)) = notifies]_vars
  /\ [][(Subscribed /\ Len(notifies') < Len(notifies)) =>
          \/ pc = "select" /\ notifies' = <<>>
                /\ QueuedKeys(pending') = QueuedKeys(notifies)
          \/ pc' \in {"backoff", "connect"} \/ pc = "backoff"]_vars

\* C36 witness: the bootstrap has read the source and not yet returned, key
\* k1 was changed after that read, and the notification of the change is
\* queued for the streaming loop.
C36_Witness ==
  /\ pc = "fs_insert"
  /\ fs_rows["k1"] # pg["k1"]
  /\ notifies # <<>>
  /\ notifies[Len(notifies)].id_root = "k1"
  /\ listening

\* C37: the full load is not atomic: between its TRUNCATE and its bulk INSERT
\* the target is empty, for the daemon's load and for the operator's; when
\* the INSERT fails the target is left empty (and the daemon goes to the
\* backoff); and an empty target is filled again only by a full load that
\* succeeds or by the streaming of a session whose bootstrap has completed.
C37_FullLoadNotAtomic ==
  /\ [](pc = "fs_insert" => ch = EmptyTable)
  /\ [](op_pc = "insert" => ch = EmptyTable)
  /\ [][(pc = "fs_insert" /\ pc' # pc /\ ~fs_done') =>
          (pc' = "backoff" /\ ch' = EmptyTable)]_vars
  /\ [][(op_pc = "insert" /\ OpFail) => ch' = EmptyTable]_vars
  /\ [][(ch = EmptyTable /\ ch' # EmptyTable) =>
          \/ pc = "fs_insert" /\ fs_done'
          \/ op_pc = "insert" /\ op_pc' = "idle"
          \/ pc = "apply" /\ fs_done]_vars

\* C37 witness: the bulk INSERT of the first session failed after its
\* TRUNCATE; the second session's full load has truncated again and, with the
\* source holding k1, the target is empty.
C37_Witness ==
  /\ pc = "fs_insert"
  /\ retry_count = 1
  /\ fs_rows["k1"] # NoRow /\ pg["k1"] # NoRow
  /\ ch = EmptyTable
  /\ op_pc = "idle" /\ last_sync # NULL

\* The target's newest stored version of key k is the source's current row.
Transferred(k) ==
  /\ ch[k] # <<>>
  /\ ch[k][Len(ch[k])] = Stored(insert_projects_row(pg[k]))

\* C38: incremental sync misses no update: between bulk runs, once a cursor
\* is saved, every source row has either been transferred in its current
\* version or carries an update time later than the cursor, so that the next
\* incremental run selects it; this includes a row updated after a run has
\* fetched its rows and before that run stores its cursor.
C38_NoUpdateMissed ==
  (op_pc = "idle" /\ last_sync # NULL) =>
     \A k \in Keys :
       pg[k] # NoRow =>
         Transferred(k) \/ Instant(pg[k][8]) > Instant(last_sync)
\* The keys with a stored version in table t.
StoredKeys(t) == {k \in Keys : t[k] # <<>>}

\* C39: an incremental bulk run never removes a key from the target: every
\* step of an incremental run, its insert included, keeps each key the target
\* holds, a key deleted from the source among them; among the operator's bulk
\* runs only the truncate of a full load takes a key out of the target.
C39_IncrementalKeepsKeys ==
  /\ [][(op_pc \in {"incremental_sync", "append"} /\ op_pc' # op_pc) =>
          StoredKeys(ch) \subseteq StoredKeys(ch')]_vars
  /\ [][~(StoredKeys(ch) \subseteq StoredKeys(ch')) =>
          (op_pc = "truncate" /\ op_pc' = "insert")]_vars

\* An incremental run with a cursor is about to append k2 while k1, deleted
\* from the source, is still stored in the target.
C39_Witness ==
  /\ op_pc = "append"
  /\ last_sync # NULL
  /\ op_rows["k2"] # NoRow /\ op_rows["k1"] = NoRow
  /\ pg["k1"] = NoRow
  /\ ch["k1"] # <<>>
====
